---- MODULE Spec2Model ----
(***************************************************************************)
(* Verification model of two components of the prover:                    *)
(*   - the backward chaining tactic  (library/tactic/backward/            *)
(*     backward_chaining.cpp, struct back_chaining_fn), and               *)
(*   - the kernel normalizer         (kernel/normalizer.cpp,              *)
(*     class normalizer::imp).                                            *)
(* The tactic framework (tactic_state, apply, the lemma index, the leaf   *)
(* tactic closure) and the kernel data structures (expr, context,         *)
(* scoped_map, environment) are collaborators whose code is elsewhere;    *)
(* they are modelled by small ground instances.                           *)
(***************************************************************************)
EXTENDS Integers, Sequences, FiniteSets, TLC

VARIABLES
    \* ---- back_chaining_fn ----
    m_initial_state,  \* tactic_state given by the caller
    m_max_depth,      \* unsigned m_max_depth
    m_leaf_tactic,    \* the leaf tactic closure
    m_lemmas,         \* backward_lemma_index (insertion ordered)
    m_state,          \* the live tactic_state
    m_choices,        \* buffer<choice>
    ctx_mctx,         \* the metavariable context held by type_context m_ctx
    it,               \* try_lemmas: the lemmas still to try
    new_state,        \* try_lemmas: result of the successful apply
    pc,               \* control point of back_chaining / run / try_lemmas / backtrack
    result,           \* the vm_obj returned by back_chaining
    \* ---- observation of the run (history) ----
    trace,            \* calls made to apply and to the leaf tactic, in order
    applied_on,       \* argument state and mctx of the last apply call
    g_pre,            \* per choice point: the argument of the apply that made it
    resumed,          \* << the g_pre entry backtrack() last popped >>, or << >>
    \* ---- normalizer::imp ----
    m_ctx,            \* context m_ctx
    m_cache,          \* cache m_cache (scoped_map)
    norm_max_depth,   \* unsigned m_max_depth of the normalizer
    m_interrupted,    \* volatile bool m_interrupted
    m_depth,          \* unsigned m_depth
    \* ---- the calls made on the normalizer ----
    arg_e,            \* expression passed to operator()
    arg_ctx,          \* context passed to operator()
    arg_given,        \* is_convertible: the given type (arg_e is the expected one)
    out,              \* what the last call returned or threw
    n_calls,          \* number of calls of operator() made so far
    life              \* what happened to the normalizer around its last call

bcvars == << m_initial_state, m_max_depth, m_leaf_tactic, m_lemmas, m_state,
             m_choices, ctx_mctx, it, new_state, pc, result,
             trace, applied_on, g_pre, resumed >>

nvars == << m_ctx, m_cache, norm_max_depth, m_interrupted, m_depth,
            arg_e, arg_ctx, arg_given, out, n_calls, life >>

vars == << bcvars, nvars >>

----------------------------------------------------------------------------
(* Bounds of the model *)
MaxDepth   == 2     \* m_max_depth ranges over 0..MaxDepth
MaxLemmas  == 2     \* number of lemmas in the index
MaxGoals   == 2     \* length of a goal list (initially, and kept by apply)
MaxTrace   == 6     \* recorded prefix of the call trace
MaxCalls   == 2     \* calls of normalizer::operator() on one normalizer
MaxCap     == 4     \* small values of the normalizer's m_max_depth: 0..MaxCap
MaxWatch   == 3     \* the watchdog sets the flag after 0..MaxWatch entries
MaxLevel   == 2     \* universe levels 0..MaxLevel

(* The default of option back_chaining.max_depth *)
LEAN_DEFAULT_BACKWARD_CHAINING_MAX_DEPTH == 8

(* The default of option kernel.normalizer.max_depth,
   std::numeric_limits<unsigned>::max().  The model checker's integers end
   at 2^31 - 1, which stands for it: no run of the model nests that deep. *)
LEAN_KERNEL_NORMALIZER_MAX_DEPTH == 2147483647

----------------------------------------------------------------------------
(* Ground instance of the tactic framework *)

\* Goals are identified by their (ground) target: P a, P b, Q.
Goals == {"Pa", "Pb", "Q"}

\* head_index(target): the head symbol of the target.
head_index(t) == IF t \in {"Pa", "Pb"} THEN "P" ELSE "Q"

\* type_context::whnf on a ground atomic target.
whnf(t) == t

\* backward lemmas: name : prems -> concl
LemmaUniverse ==
    { [name |-> "step", concl |-> "Pa", prems |-> << "Pa" >>],
      [name |-> "h1",   concl |-> "Pa", prems |-> << "Q" >>],
      [name |-> "h2",   concl |-> "Pa", prems |-> << >>],
      [name |-> "hb",   concl |-> "Pb", prems |-> << >>],
      [name |-> "hq",   concl |-> "Q",  prems |-> << "Pb", "Pa" >>] }

RECURSIVE SeqsUpTo(_, _)
\* sequences over S of length at most n
SeqsUpTo(S, n) == IF n = 0 THEN { << >> }
                  ELSE SeqsUpTo(S, n - 1) \cup [1..n -> S]

\* sequences of at most n distinct elements of S
SeqsNoRep(S, n) ==
    { q \in SeqsUpTo(S, n) : \A i, j \in 1..Len(q) : i # j => q[i] # q[j] }

\* tactic_state: the goal list and the metavariable context (the set of
\* assignments goal := proof step made so far).
mk_state(gs, mctx) == [goals |-> gs, mctx |-> mctx]

\* metavariable contexts of the caller's state: empty, or one earlier assignment
InitialMctxs == { {}, { << "Pb", "earlier" >> } }

\* set_goals(s, gs): s with its goal list replaced.
set_goals(s, gs) == [goals |-> gs, mctx |-> s.mctx]

\* backward_lemma_index::find(h): the bucket of head symbol h, in insertion order.
find(idx, h) == SelectSeq(idx, LAMBDA l : head_index(l.concl) = h)

\* apply(ctx, all=false, use_instances, lemma, s): unify the lemma's conclusion
\* with the main goal; the new state is built from the type context's mctx.
apply_ok(lemma, s) ==
    /\ s.goals # << >>
    /\ lemma.concl = Head(s.goals)
    /\ Len(lemma.prems) + Len(s.goals) - 1 <= MaxGoals

apply_state(ctxm, lemma, s) ==
    [goals |-> lemma.prems \o Tail(s.goals),
     mctx  |-> ctxm \cup { << Head(s.goals), lemma.name >> }]

\* The leaf tactic closures of the model, run on a state with the single goal g:
\*   "failed"     always fails;
\*   "assumption" closes the goal Q and fails on any other goal;
\*   "skip"       succeeds and returns its argument (the goal stays open).
LeafTactics == {"failed", "assumption", "skip"}

leaf_ok(leaf, tmp) ==
    \/ leaf = "skip"
    \/ leaf = "assumption" /\ Head(tmp.goals) = "Q"

leaf_state(leaf, tmp) ==
    IF leaf = "skip" THEN tmp
    ELSE [goals |-> << >>, mctx |-> tmp.mctx \cup { << Head(tmp.goals), "leaf" >> }]

\* vm_obj results
mk_tactic_success(s)      == [kind |-> "success",  state |-> s]
mk_tactic_exception(s)    == [kind |-> "failure",  state |-> s]
mk_no_goals_exception(s)  == [kind |-> "no_goals", state |-> s]
NoResult                  == [kind |-> "none",     state |-> mk_state(<< >>, {})]

\* recording of calls
Record(tr, ev) == IF Len(tr) < MaxTrace THEN Append(tr, ev) ELSE tr

----------------------------------------------------------------------------
(* Kernel data structures: expr, environment, context, svalue, cache *)

\* expr nodes.  Field id is the identity of a node that is referenced more
\* than once (is_shared); id = 0 is a node with a single reference.  Binder
\* names are for display only and are left out.
mk_var(i)         == [kind |-> "Var",      id |-> 0, idx |-> i]
mk_constant(n)    == [kind |-> "Constant", id |-> 0, name |-> n]
mk_type(l)        == [kind |-> "Type",     id |-> 0, level |-> l]
mk_value(v)       == [kind |-> "Value",    id |-> 0, val |-> v]
mk_eq(l, r)       == [kind |-> "Eq",       id |-> 0, lhs |-> l, rhs |-> r]
mk_lambda(t, b)   == [kind |-> "Lambda",   id |-> 0, domain |-> t, body |-> b]
mk_pi(t, b)       == [kind |-> "Pi",       id |-> 0, domain |-> t, body |-> b]
mk_let(v, b)      == [kind |-> "Let",      id |-> 0, value |-> v, body |-> b]
mk_bool_value(b)  == mk_value(IF b THEN "true" ELSE "false")
\* mk_app(n, args): ((f a) b) is represented as (f a b)
mk_app(as) ==
    [kind |-> "App", id |-> 0,
     args |-> IF as[1].kind = "App" THEN as[1].args \o Tail(as) ELSE as]

\* the same node, referenced from several places
shared_node(e, n) == [e EXCEPT !.id = n]

is_shared(a) == a.id > 0
is_value(a)  == a.kind = "Value"
is_lambda(a) == a.kind = "Lambda"
is_type(a)   == a.kind = "Type"
is_pi(a)     == a.kind = "Pi"
\* the built-in type Bool
mk_bool_type == mk_value("Bool")

RECURSIVE structure(_)
\* the tree of a node, identities forgotten
structure(e) ==
    CASE e.kind = "App" ->
           [kind |-> "App", id |-> 0,
            args |-> [i \in 1..Len(e.args) |-> structure(e.args[i])]]
      [] e.kind = "Eq" -> mk_eq(structure(e.lhs), structure(e.rhs))
      [] e.kind = "Lambda" -> mk_lambda(structure(e.domain), structure(e.body))
      [] e.kind = "Pi" -> mk_pi(structure(e.domain), structure(e.body))
      [] e.kind = "Let" -> mk_let(structure(e.value), structure(e.body))
      [] OTHER -> [e EXCEPT !.id = 0]

\* operator== on expr: structural equality
expr_eq(a, b) == structure(a) = structure(b)

RECURSIVE lift_free_vars(_, _, _)
\* lift_free_vars(e, s, n): the free variables of e with index >= s raised by
\* n; a node that does not change is the same node
lift_free_vars(e, s, n) ==
    LET r == CASE e.kind = "Var" -> IF e.idx >= s THEN [e EXCEPT !.idx = @ + n] ELSE e
               [] e.kind = "App" ->
                    [e EXCEPT !.args = [i \in 1..Len(e.args) |->
                                          lift_free_vars(e.args[i], s, n)]]
               [] e.kind = "Eq" ->
                    [e EXCEPT !.lhs = lift_free_vars(@, s, n),
                              !.rhs = lift_free_vars(@, s, n)]
               [] e.kind \in {"Lambda", "Pi"} ->
                    [e EXCEPT !.domain = lift_free_vars(@, s, n),
                              !.body = lift_free_vars(@, s + 1, n)]
               [] e.kind = "Let" ->
                    [e EXCEPT !.value = lift_free_vars(@, s, n),
                              !.body = lift_free_vars(@, s + 1, n)]
               [] OTHER -> e
    IN  IF r = e THEN e ELSE [r EXCEPT !.id = 0]

RECURSIVE substitute(_, _, _)
\* substitute(b, i, v): Var i of b replaced by v (lifted over the binders
\* crossed), the variables above i lowered by one; a node that does not
\* change is the same node
substitute(b, i, v) ==
    LET r == CASE b.kind = "Var" ->
                    IF b.idx = i THEN lift_free_vars(v, 0, i)
                    ELSE IF b.idx > i THEN [b EXCEPT !.idx = @ - 1]
                    ELSE b
               [] b.kind = "App" ->
                    [b EXCEPT !.args = [j \in 1..Len(b.args) |->
                                          substitute(b.args[j], i, v)]]
               [] b.kind = "Eq" ->
                    [b EXCEPT !.lhs = substitute(@, i, v),
                              !.rhs = substitute(@, i, v)]
               [] b.kind \in {"Lambda", "Pi"} ->
                    [b EXCEPT !.domain = substitute(@, i, v),
                              !.body = substitute(@, i + 1, v)]
               [] b.kind = "Let" ->
                    [b EXCEPT !.value = substitute(@, i, v),
                              !.body = substitute(@, i + 1, v)]
               [] OTHER -> b
    IN  IF r = b THEN b
        ELSE IF b.kind = "Var" /\ b.idx = i THEN r
        ELSE IF r.kind = "App" THEN mk_app(r.args)
        ELSE [r EXCEPT !.id = 0]

\* environment: c is an axiom, id a non-opaque definition fun x : Type 0, x
get_object(n) ==
    IF n = "id"
    THEN [is_definition |-> TRUE, is_opaque |-> FALSE,
          value |-> mk_lambda(mk_type(0), mk_var(0))]
    ELSE [is_definition |-> FALSE, is_opaque |-> FALSE, value |-> mk_constant(n)]

\* value::normalize(n, args, m) of a literal: there is no computation rule
\* environment::is_ge(l1, l2): the universe order of the environment, here
\* the partial order on 0..MaxLevel with 0 at the bottom and the odd and the
\* even levels two chains above it
is_ge(l1, l2) == l1 >= l2 /\ (l2 = 0 \/ (l1 - l2) % 2 = 0)

value_normalize(as) == [ok |-> FALSE, m |-> as[1]]

\* context: the sequence of entries, innermost first; an entry may have a body
entry_var       == [body |-> << >>]
entry_let(b)    == [body |-> << b >>]
\* lookup_ext(c, j): the entry of variable j and the context below it
lookup_ext_entry(c, j)   == c[j + 1]
lookup_ext_context(c, j) == SubSeq(c, j + 2, Len(c))

\* svalue
sv_expr(e)       == [m_kind |-> "Expr", m_expr |-> e]
sv_bvar(j)       == [m_kind |-> "BoundedVar", m_bvar |-> j]
sv_closure(e, c) == [m_kind |-> "Closure", m_expr |-> e, m_ctx |-> c]
sv_none          == [m_kind |-> "none"]

\* value_stack
extend(s, v) == << v >> \o s

\* cache (scoped_map keyed by node identity): the map as it is in each open
\* scope; the last element is the current one.
cache_empty        == << << >> >>
cache_top(c)       == c[Len(c)]
cache_has(c, id)   == id \in DOMAIN cache_top(c)
cache_get(c, id)   == cache_top(c)[id]
cache_insert(c, id, v) ==
    [c EXCEPT ![Len(c)] =
        [x \in (DOMAIN @) \cup {id} |-> IF x = id THEN v ELSE @[x]]]
cache_push(c)      == Append(c, cache_top(c))
cache_pop(c)       == SubSeq(c, 1, Len(c) - 1)
cache_clear(c)     == [i \in 1..Len(c) |-> << >>]

----------------------------------------------------------------------------
(* normalizer::imp.  Every operation returns [err, v, st]: err is "ok" or
   the exception thrown, v the value returned, st the normalizer's mutable
   state afterwards: st.cache is m_cache, st.max_depth is m_max_depth,
   st.fuel the number of further entries of normalize before m_interrupted
   is seen set (-1: never).  Two counters observe the run: st.entries, the
   entries of normalize that passed check_interrupted and the depth test,
   and st.peak, the largest m_depth among them.  Three more fields observe
   the cache: st.saved, the visible contents at each push of a frame still
   open, st.frames_exact, whether every pop so far left the visible contents
   of its push, and st.switch_clean, whether the cache held no entry at
   every change of m_ctx so far.  st.m_depth is m_depth, and st.balanced
   whether at every entry of normalize so far m_depth was the number of
   invocations of normalize then active.
   m_ctx (ctx) is passed down, as save_context restores it on every exit;
   d is the number of invocations of normalize active around the call. *)

Ok(v, st)    == [err |-> "ok", v |-> v, st |-> st]
Throw(e, st) == [err |-> e, v |-> sv_none, st |-> st]
\* whether no frame of the cache holds an entry
cache_holds_nothing(c) == \A i \in 1..Len(c) : DOMAIN c[i] = {}
\* mk_scope(): a frame is pushed
PushScope(st) == [st EXCEPT !.cache = cache_push(@), !.saved = Append(@, cache_top(st.cache))]
\* ~mk_scope(): the frame is popped on return and on exception
PopScope(r)  == [r EXCEPT !.st.cache = cache_pop(@), !.st.saved = SubSeq(@, 1, Len(@) - 1), !.st.frames_exact = @ /\ cache_top(cache_pop(r.st.cache)) = r.st.saved[Len(r.st.saved)]]
\* m_ctx takes another value: what the cache holds at that point is observed
ctx_changed(st) == [st EXCEPT !.switch_clean = @ /\ cache_holds_nothing(st.cache)]
\* ~save_context(): m_ctx = m_old_ctx, on return and on exception
RestoreContext(r) == [r EXCEPT !.st = ctx_changed(@)]

\* flet<unsigned> l(m_depth, m_depth+1): m_depth is raised by one
flet_set(st) == [st EXCEPT !.m_depth = @ + 1]

\* (mutation of flet_restore: the old value is put back on return only)
flet_restore_on_return(r, old) == IF r.err = "ok" THEN [r EXCEPT !.st.m_depth = old] ELSE r

\* the end of the scope of l: m_depth has its old value again, on return and
\* on exception
flet_restore(r, old) == [r EXCEPT !.st.m_depth = old]

\* (mutation of check_interrupted: the flag is not looked at)
check_interrupted_never(fuel) == FALSE

\* normalize: check_interrupted(m_interrupted) throws when the flag is read
\* set, which is when no entry is left before the flag is seen
check_interrupted(fuel) == fuel = 0

\* (mutation of depth_exceeded: >= instead of >)
depth_exceeded_at_cap(depth, max_depth) == depth >= max_depth

\* normalize: if (m_depth > m_max_depth), m_depth already incremented
depth_exceeded(depth, max_depth) == depth > max_depth

\* Let case: the depth passed for the let body, k+1
let_depth(k) == k + 1

\* Eq case: the result for the reified sides
eq_result(new_lhs, new_rhs) ==
    IF expr_eq(new_lhs, new_rhs) THEN mk_bool_value(TRUE)
    ELSE IF is_value(new_lhs) /\ is_value(new_rhs) THEN mk_bool_value(FALSE)
    ELSE mk_eq(new_lhs, new_rhs)

RECURSIVE imp(_)
\* The member functions call each other through imp, which runs the body of
\* the function named by the call.
normalize(a, s, k, ctx, d, st) ==
    imp([op |-> "normalize", a |-> a, s |-> s, k |-> k, ctx |-> ctx, d |-> d, st |-> st])
normalize_kind(a, s, k, ctx, d, st) ==
    imp([op |-> "normalize_kind", a |-> a, s |-> s, k |-> k, ctx |-> ctx, d |-> d, st |-> st])
lookup(s, i, k, ctx, d, st) ==
    imp([op |-> "lookup", s |-> s, i |-> i, k |-> k, ctx |-> ctx, d |-> d, st |-> st])
reify(v, k, ctx, d, st) ==
    imp([op |-> "reify", v |-> v, k |-> k, ctx |-> ctx, d |-> d, st |-> st])
reify_closure(a, s, k, ctx, d, st) ==
    imp([op |-> "reify_closure", a |-> a, s |-> s, k |-> k, ctx |-> ctx, d |-> d, st |-> st])
normalize_app(a, s, k, ctx, d, f, i, st) ==
    imp([op |-> "normalize_app", a |-> a, s |-> s, k |-> k, ctx |-> ctx, d |-> d, f |-> f, i |-> i, st |-> st])
normalize_args(a, s, k, ctx, d, i, new_args, st) ==
    imp([op |-> "normalize_args", a |-> a, s |-> s, k |-> k, ctx |-> ctx, d |-> d, i |-> i, new_args |-> new_args, st |-> st])
imp_call_at(e, ctx, old_ctx, cache, fuel, same_object, max_depth, depth) ==
    imp([op |-> "operator()", e |-> e, ctx |-> ctx, old_ctx |-> old_ctx, cache |-> cache,
         fuel |-> fuel, same_object |-> same_object, max_depth |-> max_depth,
         depth |-> depth])
imp_is_convertible_at(expected, given, ctx, old_ctx, cache, fuel, same_object, max_depth, depth) ==
    imp([op |-> "is_convertible", expected |-> expected, given |-> given, ctx |-> ctx,
         old_ctx |-> old_ctx, cache |-> cache, fuel |-> fuel,
         same_object |-> same_object, max_depth |-> max_depth, depth |-> depth])
\* the two calls on an imp between calls, where m_depth is 0 as imp::imp set it
imp_call(e, ctx, old_ctx, cache, fuel, same_object, max_depth) ==
    imp_call_at(e, ctx, old_ctx, cache, fuel, same_object, max_depth, 0)
imp_is_convertible(expected, given, ctx, old_ctx, cache, fuel, same_object, max_depth) ==
    imp_is_convertible_at(expected, given, ctx, old_ctx, cache, fuel, same_object, max_depth, 0)

\* svalue lookup(value_stack const & s, unsigned i, unsigned k)
lookup_body(s, i, k, ctx, d, st) ==
    IF 0 <= i /\ i < Len(s) THEN Ok(s[i + 1], st)
    ELSE LET j == i - Len(s)
         IN  \* lookup_ext throws when the index is beyond the context
             IF i < 0 \/ j >= Len(ctx) THEN Throw("unknown free variable", st)
             ELSE LET entry   == lookup_ext_entry(ctx, j)
                      entry_c == lookup_ext_context(ctx, j)
                  IN  IF entry.body # << >>
                      THEN \* save_context: the cache is cleared, m_ctx = entry_c,
                           \* and m_ctx is restored (the cache is not) on exit
                           LET k2 == Len(entry_c)
                               st1 == ctx_changed([st EXCEPT !.cache = cache_clear(@)])
                               r  == normalize(entry.body[1], << >>, k2, entry_c, d, st1)
                           IN  IF r.err # "ok" THEN RestoreContext(r)
                               ELSE LET e == reify(r.v, k2, entry_c, d, r.st)
                                    IN  IF e.err # "ok" THEN RestoreContext(e)
                                        ELSE RestoreContext(Ok(sv_expr(e.v), e.st))
                      ELSE Ok(sv_bvar(Len(entry_c)), st)

\* expr reify_closure(expr const & a, value_stack const & s, unsigned k)
reify_closure_body(a, s, k, ctx, d, st) ==
    LET t == normalize(a.domain, s, k, ctx, d, st)
    IN  IF t.err # "ok" THEN t
        ELSE LET new_t == reify(t.v, k, ctx, d, t.st)
             IN  IF new_t.err # "ok" THEN new_t
                 ELSE LET b == normalize(a.body, extend(s, sv_bvar(k)), k + 1,
                                         ctx, d, new_t.st)
                      IN  IF b.err # "ok" THEN b
                          ELSE LET new_b == reify(b.v, k + 1, ctx, d, b.st)
                               IN  IF new_b.err # "ok" THEN new_b
                                   ELSE Ok(mk_lambda(new_t.v, new_b.v), new_b.st)

\* expr reify(svalue const & v, unsigned k)
reify_body(v, k, ctx, d, st) ==
    CASE v.m_kind = "Expr"       -> Ok(v.m_expr, st)
      \* k - to_bvar(v) - 1 in unsigned arithmetic: a negative index i stands
      \* for the wrapped value 2^32 + i
      [] v.m_kind = "BoundedVar" -> Ok(mk_var(k - v.m_bvar - 1), st)
      [] v.m_kind = "Closure"    -> reify_closure(v.m_expr, v.m_ctx, k, ctx, d, st)

\* App case, the loop while (true) with the head f and the argument index i
normalize_app_body(a, s, k, ctx, d, f, i, st) ==
    LET n == Len(a.args)
    IN  IF f.m_kind = "Closure"
        THEN \* beta reduction, under cache::mk_scope
             LET x == normalize(a.args[i + 1], s, k, ctx, d,
                                PushScope(st))
             IN  IF x.err # "ok" THEN PopScope(x)
                 ELSE LET new_s == extend(f.m_ctx, x.v)
                          b == normalize(f.m_expr.body, new_s, k, ctx, d, x.st)
                      IN  IF b.err # "ok" \/ i = n - 1 THEN PopScope(b)
                          ELSE normalize_app(a, s, k, ctx, d, b.v, i + 1,
                                             PopScope(b).st)
        ELSE LET new_f == reify(f, k, ctx, d, st)
             IN  IF new_f.err # "ok" THEN new_f
                 ELSE LET as == normalize_args(a, s, k, ctx, d, i,
                                               << new_f.v >>, new_f.st)
                      IN  IF as.err # "ok" THEN as
                          ELSE IF is_value(new_f.v) /\ value_normalize(as.v).ok
                          THEN normalize(value_normalize(as.v).m, s, k, ctx, d, as.st)
                          ELSE Ok(sv_expr(mk_app(as.v)), as.st)

\* App case: for (; i < n; i++) new_args.push_back(reify(normalize(arg(a, i), s, k), k))
normalize_args_body(a, s, k, ctx, d, i, new_args, st) ==
    IF i >= Len(a.args) THEN Ok(new_args, st)
    ELSE LET x == normalize(a.args[i + 1], s, k, ctx, d, st)
         IN  IF x.err # "ok" THEN x
             ELSE LET e == reify(x.v, k, ctx, d, x.st)
                  IN  IF e.err # "ok" THEN e
                      ELSE normalize_args(a, s, k, ctx, d, i + 1,
                                          Append(new_args, e.v), e.st)

\* normalize: switch (a.kind()); d is m_depth inside this call
normalize_kind_body(a, s, k, ctx, d, st) ==
    CASE a.kind = "Var" -> lookup(s, a.idx, k, ctx, d, st)
      [] a.kind = "Constant" ->
           LET obj == get_object(a.name)
           IN  IF obj.is_definition /\ ~ obj.is_opaque
               THEN normalize(obj.value, << >>, 0, ctx, d, st)
               ELSE Ok(sv_expr(a), st)
      [] a.kind \in {"Type", "Value"} -> Ok(sv_expr(a), st)
      [] a.kind = "App" ->
           LET f == normalize(a.args[1], s, k, ctx, d, st)
           IN  IF f.err # "ok" THEN f
               ELSE normalize_app(a, s, k, ctx, d, f.v, 1, f.st)
      [] a.kind = "Eq" ->
           LET l == normalize(a.lhs, s, k, ctx, d, st)
           IN  IF l.err # "ok" THEN l
               ELSE LET new_lhs == reify(l.v, k, ctx, d, l.st)
                    IN  IF new_lhs.err # "ok" THEN new_lhs
                        ELSE LET r == normalize(a.rhs, s, k, ctx, d, new_lhs.st)
                             IN  IF r.err # "ok" THEN r
                                 ELSE LET new_rhs == reify(r.v, k, ctx, d, r.st)
                                      IN  IF new_rhs.err # "ok" THEN new_rhs
                                          ELSE Ok(sv_expr(eq_result(new_lhs.v, new_rhs.v)),
                                                  new_rhs.st)
      [] a.kind = "Lambda" -> Ok(sv_closure(a, s), st)
      [] a.kind = "Pi" ->
           LET t == normalize(a.domain, s, k, ctx, d, st)
           IN  IF t.err # "ok" THEN t
               ELSE LET new_t == reify(t.v, k, ctx, d, t.st)
                    IN  IF new_t.err # "ok" THEN new_t
                        ELSE LET b == normalize(a.body, extend(s, sv_bvar(k)), k + 1, ctx, d,
                                                PushScope(new_t.st))
                             IN  IF b.err # "ok" THEN PopScope(b)
                                 ELSE LET new_b == reify(b.v, k + 1, ctx, d, b.st)
                                      IN  IF new_b.err # "ok" THEN PopScope(new_b)
                                          ELSE Ok(sv_expr(mk_pi(new_t.v, new_b.v)),
                                                  PopScope(new_b).st)
      [] a.kind = "Let" ->
           LET v == normalize(a.value, s, k, ctx, d, st)
           IN  IF v.err # "ok" THEN v
               ELSE PopScope(normalize(a.body, extend(s, v.v), let_depth(k), ctx, d,
                                       PushScope(v.st)))

\* svalue normalize(expr const & a, value_stack const & s, unsigned k);
\* d is m_depth before the call
normalize_body(a, s, k, ctx, d, st) ==
    LET st0 == [flet_set(st) EXCEPT !.balanced = @ /\ st.m_depth + 1 = d + 1]
        r0  == IF check_interrupted(st0.fuel) THEN Throw("Interrupted", st0)
               ELSE IF depth_exceeded(st0.m_depth, st0.max_depth)
               THEN Throw("DepthExceeded", st0)
               ELSE LET st1 == [st0 EXCEPT !.fuel = IF @ > 0 THEN @ - 1 ELSE @,
                                           !.entries = @ + 1,
                                           !.peak = IF st0.m_depth > @ THEN st0.m_depth ELSE @]
                    IN  IF is_shared(a) /\ cache_has(st1.cache, a.id)
                        THEN Ok(cache_get(st1.cache, a.id), st1)
                        ELSE LET r == normalize_kind(a, s, k, ctx, d + 1, st1)
                             IN  IF r.err = "ok" /\ is_shared(a)
                                 THEN Ok(r.v, [r.st EXCEPT !.cache = cache_insert(@, a.id, r.v)])
                                 ELSE r
    IN  flet_restore(r0, st.m_depth)

\* set_ctx(ctx): the cache is cleared when ctx is another context object;
\* same_object tells whether a context equal to m_ctx is the same object.
set_ctx_cache(cache, old_ctx, ctx, same_object) ==
    IF ctx = old_ctx /\ same_object THEN cache ELSE cache_clear(cache)

\* the fields of an imp whose cache is cache and whose m_max_depth is
\* max_depth and whose m_depth is depth, with the counters of a run at zero
imp_fields(cache, max_depth, fuel, depth) ==
    [cache |-> cache, max_depth |-> max_depth, fuel |-> fuel, m_depth |-> depth,
     entries |-> 0, peak |-> 0, balanced |-> TRUE,
     saved |-> << >>, frames_exact |-> TRUE, switch_clean |-> TRUE]

\* the fields after set_ctx(ctx) on an imp whose m_ctx is old_ctx
imp_fields_set_ctx(ctx, old_ctx, cache, max_depth, fuel, same_object, depth) ==
    LET st == imp_fields(set_ctx_cache(cache, old_ctx, ctx, same_object), max_depth, fuel, depth)
    IN  IF ctx # old_ctx THEN ctx_changed(st) ELSE st

\* expr operator()(expr const & e, context const & ctx) on an imp whose fields
\* are old_ctx, cache, max_depth; the fields afterwards are ctx and the
\* returned st.cache
imp_call_body(e, ctx, old_ctx, cache, fuel, same_object, max_depth, depth) ==
    LET st == imp_fields_set_ctx(ctx, old_ctx, cache, max_depth, fuel, same_object, depth)
        k  == Len(ctx)
        r  == normalize(e, << >>, k, ctx, 0, st)
    IN  IF r.err # "ok" THEN r ELSE reify(r.v, k, ctx, 0, r.st)

\* (mutation of type_convertible: the levels compared the other way round)
type_convertible_swapped(e_level, g_level) == is_ge(g_level, e_level)

\* is_convertible_core: m_env.is_ge(ty_level(*e), ty_level(*g))
type_convertible(e_level, g_level) == is_ge(e_level, g_level)

RECURSIVE is_convertible_loop(_, _)
\* is_convertible_core: the loop while (true) over e and g
is_convertible_loop(e, g) ==
    IF is_type(e) /\ is_type(g) /\ type_convertible(e.level, g.level) THEN TRUE
    ELSE IF is_type(e) /\ expr_eq(g, mk_bool_type) THEN TRUE
    ELSE IF is_pi(e) /\ is_pi(g) /\ expr_eq(e.domain, g.domain)
    THEN is_convertible_loop(e.body, g.body)
    ELSE FALSE

\* bool is_convertible_core(expr const & expected, expr const & given)
is_convertible_core(expected, given) ==
    IF expr_eq(expected, given) THEN TRUE
    ELSE is_convertible_loop(expected, given)

\* bool is_convertible(expected, given, ctx) on an imp whose fields are
\* old_ctx, cache, max_depth; ctx is m_ctx afterwards
imp_is_convertible_body(expected, given, ctx, old_ctx, cache, fuel, same_object, max_depth, depth) ==
    IF is_convertible_core(expected, given)
    THEN [err |-> "ok", v |-> TRUE, st |-> imp_fields(cache, max_depth, fuel, depth),
          ctx |-> old_ctx]
    ELSE LET st  == imp_fields_set_ctx(ctx, old_ctx, cache, max_depth, fuel, same_object, depth)
             k   == Len(ctx)
             e   == normalize(expected, << >>, k, ctx, 0, st)
             e_n == IF e.err # "ok" THEN e ELSE reify(e.v, k, ctx, 0, e.st)
             g   == IF e_n.err # "ok" THEN e_n
                    ELSE normalize(given, << >>, k, ctx, 0, e_n.st)
             g_n == IF g.err # "ok" THEN g ELSE reify(g.v, k, ctx, 0, g.st)
         IN  IF g_n.err # "ok"
             THEN [err |-> g_n.err, v |-> FALSE, st |-> g_n.st, ctx |-> ctx]
             ELSE [err |-> "ok", v |-> is_convertible_core(e_n.v, g_n.v),
                   st |-> g_n.st, ctx |-> ctx]

\* the body of the member function called
imp(c) ==
    CASE c.op = "normalize" -> normalize_body(c.a, c.s, c.k, c.ctx, c.d, c.st)
      [] c.op = "normalize_kind" -> normalize_kind_body(c.a, c.s, c.k, c.ctx, c.d, c.st)
      [] c.op = "normalize_app" ->
           normalize_app_body(c.a, c.s, c.k, c.ctx, c.d, c.f, c.i, c.st)
      [] c.op = "normalize_args" ->
           normalize_args_body(c.a, c.s, c.k, c.ctx, c.d, c.i, c.new_args, c.st)
      [] c.op = "lookup" -> lookup_body(c.s, c.i, c.k, c.ctx, c.d, c.st)
      [] c.op = "reify" -> reify_body(c.v, c.k, c.ctx, c.d, c.st)
      [] c.op = "reify_closure" -> reify_closure_body(c.a, c.s, c.k, c.ctx, c.d, c.st)
      [] c.op = "operator()" ->
           imp_call_body(c.e, c.ctx, c.old_ctx, c.cache, c.fuel, c.same_object,
                         c.max_depth, c.depth)
      [] c.op = "is_convertible" ->
           imp_is_convertible_body(c.expected, c.given, c.ctx, c.old_ctx, c.cache,
                                   c.fuel, c.same_object, c.max_depth, c.depth)

\* operator() on the normalizer of the model, whose m_max_depth is norm_max_depth
call_normalize(e, ctx, old_ctx, cache, fuel, same_object) ==
    imp_call_at(e, ctx, old_ctx, cache, fuel, same_object, norm_max_depth, m_depth)

\* expr normalize(expr const & e, environment const & env, context const & ctx):
\* a new normalizer(env), of maximum depth LEAN_KERNEL_NORMALIZER_MAX_DEPTH,
\* for one call
normalize_fn(e, ctx) ==
    imp_call(e, ctx, << >>, cache_empty, -1, TRUE, LEAN_KERNEL_NORMALIZER_MAX_DEPTH)

\* bool is_convertible(expected, given, env, ctx): a new normalizer(env) for
\* one call
is_convertible_fn(expected, given, ctx) ==
    imp_is_convertible(expected, given, ctx, << >>, cache_empty, -1, TRUE,
                       LEAN_KERNEL_NORMALIZER_MAX_DEPTH)

----------------------------------------------------------------------------
(* Inputs of the normalizer, and the idle states of the two components *)

\* expressions and contexts the calls are made with
V0   == mk_var(0)
V1   == mk_var(1)
V0s  == shared_node(mk_var(0), 1)      \* a node Var 0 with several references
Cc   == mk_constant("c")
Cid  == mk_constant("id")
Val1 == mk_value("1")
Val2 == mk_value("2")
T0   == mk_type(0)

Atoms == { V0, V0s, V1, Cc, Cid, Val1, Val2 }

Level1(A, B) ==
    { mk_app(<< a, b >>) : a \in A, b \in B } \cup
    { mk_eq(a, b) : a \in A, b \in B } \cup
    { mk_let(a, b) : a \in A, b \in B }

Binders(B) == { mk_lambda(T0, b) : b \in B } \cup { mk_pi(T0, b) : b \in B }

Exprs1 == Level1(Atoms, Atoms) \cup Binders(Atoms)

Exprs2 == Level1(Atoms, Exprs1) \cup Level1(Exprs1, Atoms) \cup Binders(Exprs1)

\* a lambda of two arguments applied to two arguments
Redexes2 ==
    { mk_app(<< mk_lambda(T0, mk_lambda(T0, b)), a1, a2 >>) :
        b \in { V0, V1, mk_app(<< V1, V0 >>) }, a1 \in { V0, V0s, Cc }, a2 \in { V0, Val1 } }

\* a lambda applied to one argument, the argument an application or the body
\* a binder
Redexes1 ==
    { mk_app(<< mk_lambda(T0, b), a >>) :
        b \in { V0, V0s, V1, mk_pi(T0, V1), mk_lambda(T0, V1), mk_app(<< Cc, V0s >>) },
        a \in { mk_app(<< Cc, V0 >>), mk_app(<< Cc, V0s >>), mk_eq(V0, V0s) } }

ExprUniverse == Atoms \cup { T0 } \cup Exprs1 \cup Exprs2 \cup Redexes1 \cup Redexes2

Contexts ==
    { << >>,
      << entry_var >>,
      << entry_var, entry_var >>,
      << entry_let(Cc), entry_var >>,
      << entry_var, entry_let(Cc) >>,
      << entry_let(V0s), entry_var >>,
      << entry_let(mk_app(<< Cc, V0 >>)), entry_var >> }

RECURSIVE closed(_, _)
\* every free variable of e is below n
closed(e, n) ==
    CASE e.kind = "Var" -> e.idx < n
      [] e.kind = "App" -> \A i \in 1..Len(e.args) : closed(e.args[i], n)
      [] e.kind = "Eq" -> closed(e.lhs, n) /\ closed(e.rhs, n)
      [] e.kind \in {"Lambda", "Pi"} -> closed(e.domain, n) /\ closed(e.body, n + 1)
      [] e.kind = "Let" -> closed(e.value, n) /\ closed(e.body, n + 1)
      [] OTHER -> TRUE

NoOutput == [err |-> "none", v |-> sv_none]

\* life: prev is how the call before the last one ended, pre the operations
\* (clear, set_interrupt) made between that call and the last one, since
\* those made after the last call, watch the number of entries of the last
\* call after which a watchdog set the flag (-1: no watchdog), entries the
\* entries the last call made, flagged whether set_interrupt(true) was ever
\* executed, op the function last called, frames_exact and switch_clean
\* what the last call observed of its cache, balanced what it observed of
\* m_depth, peak the largest m_depth it reached
NoLife == [op |-> "none", prev |-> "none", pre |-> {}, since |-> {}, watch |-> -1,
           entries |-> 0, flagged |-> FALSE, frames_exact |-> TRUE, switch_clean |-> TRUE,
           balanced |-> TRUE, peak |-> 0]

\* the record of a call of operator() that left the fields st
after_call(l, prev, watch, st) ==
    [op |-> "normalize", prev |-> prev, pre |-> l.since, since |-> {},
     watch |-> watch, entries |-> st.entries, flagged |-> l.flagged \/ watch >= 0,
     frames_exact |-> st.frames_exact, switch_clean |-> st.switch_clean,
     balanced |-> st.balanced, peak |-> st.peak]

\* the normalizer before it is used: imp::imp
NormIdle ==
    /\ m_ctx = << >>
    /\ m_cache = cache_empty
    /\ m_interrupted = FALSE
    /\ m_depth = 0
    /\ n_calls = 0
    /\ out = NoOutput
    /\ life = NoLife

\* the backward chaining variables, when the model is of the normalizer
BCIdle ==
    /\ m_initial_state = mk_state(<< >>, {})
    /\ m_max_depth = LEAN_DEFAULT_BACKWARD_CHAINING_MAX_DEPTH
    /\ m_leaf_tactic = "failed"
    /\ m_lemmas = << >>
    /\ m_state = m_initial_state
    /\ m_choices = << >>
    /\ ctx_mctx = {}
    /\ it = << >>
    /\ new_state = m_initial_state
    /\ pc = "idle"
    /\ result = NoResult
    /\ trace = << >>
    /\ applied_on = [state |-> m_initial_state, mctx |-> {}]
    /\ g_pre = << >>
    /\ resumed = << >>

----------------------------------------------------------------------------
(* back_chaining_fn *)

\* (mutation of back_chaining_no_goal: success instead of the exception)
back_chaining_no_goal_success(s) == mk_tactic_success(s)

\* back_chaining(): the result for a state without a main goal.
back_chaining_no_goal(s) == mk_no_goals_exception(s)

\* operator()(): focus on the head goal.
focus(s) == set_goals(s, << Head(s.goals) >>)

\* (mutation of final_state: all the initial goals are reattached)
final_state_all_goals(st, goals) == set_goals(st, goals)

\* operator()(): the state returned on success.
final_state(st, goals) == set_goals(st, Tail(goals))

\* (mutation of depth_cap_reached: > instead of >=)
depth_cap_reached_strict(choices, max_depth) == Len(choices) > max_depth

\* (mutation of depth_cap_reached: the test is skipped)
depth_cap_reached_never(choices, max_depth) == FALSE

\* run(): m_choices.size() >= m_max_depth
depth_cap_reached(choices, max_depth) == Len(choices) >= max_depth

\* (mutation of push_choice: the choice is saved after m_state = *new_state)
push_choice_after_assign(choices, st, nst, rest) ==
    IF rest # << >>
    THEN Append(choices, [m_state |-> nst, m_lemmas |-> rest])
    ELSE choices

\* try_lemmas(): if (tail(it)) m_choices.emplace_back(m_state, tail(it));
\* st is m_state at that point, nst is *new_state.
push_choice(choices, st, nst, rest) ==
    IF rest # << >>
    THEN Append(choices, [m_state |-> st, m_lemmas |-> rest])
    ELSE choices

\* (mutation of choices_exhausted: backtrack gives up without popping)
choices_exhausted_always(choices) == TRUE

\* backtrack(): the loop condition negated, m_choices.empty()
choices_exhausted(choices) == choices = << >>

\* (mutation of no_lemmas: the leaf tactic is tried on every goal)
no_lemmas_always(lemmas) == TRUE

\* run(): if (!lemmas), for the list the index returned
no_lemmas(lemmas) == lemmas = << >>

\* (mutation of top_choice: the oldest choice point is resumed)
top_choice_oldest(choices) == choices[1]

\* backtrack(): m_choices.back()
top_choice(choices) == choices[Len(choices)]

\* invoke_leaf_tactic(): the state adopted on success.
leaf_adopt(new_s, st) == set_goals(new_s, Tail(st.goals))

BCInit ==
    /\ NormIdle
    /\ norm_max_depth = LEAN_KERNEL_NORMALIZER_MAX_DEPTH
    /\ arg_e = mk_type(0)
    /\ arg_ctx = << >>
    /\ arg_given = mk_type(0)
    /\ m_initial_state \in { mk_state(gs, m) : gs \in SeqsUpTo(Goals, MaxGoals),
                                              m \in InitialMctxs }
    /\ m_max_depth \in 0..MaxDepth
    /\ m_leaf_tactic \in LeafTactics
    /\ m_lemmas \in SeqsNoRep(LemmaUniverse, MaxLemmas)
    /\ m_state = m_initial_state
    /\ m_choices = << >>
    /\ ctx_mctx = m_initial_state.mctx
    /\ it = << >>
    /\ new_state = m_initial_state
    /\ pc = "entry"
    /\ result = NoResult
    /\ trace = << >>
    /\ applied_on = [state |-> m_initial_state, mctx |-> {}]
    /\ g_pre = << >>
    /\ resumed = << >>

\* back_chaining(), the constructor and the first half of operator()().
back_chaining ==
    /\ UNCHANGED nvars
    /\ pc = "entry"
    /\ IF m_initial_state.goals = << >>
       THEN /\ result' = back_chaining_no_goal(m_initial_state)
            /\ pc' = "done"
            /\ UNCHANGED m_state
       ELSE /\ m_state' = focus(m_initial_state)
            /\ pc' = "loop"
            /\ UNCHANGED result
    /\ UNCHANGED << m_initial_state, m_max_depth, m_leaf_tactic, m_lemmas,
                    m_choices, ctx_mctx, it, new_state, trace, applied_on,
                    g_pre, resumed >>

\* run(): no goals left; operator()() returns success.
run_no_goals ==
    /\ UNCHANGED nvars
    /\ pc = "loop"
    /\ m_state.goals = << >>
    /\ result' = mk_tactic_success(final_state(m_state, m_initial_state.goals))
    /\ pc' = "done"
    /\ UNCHANGED << m_initial_state, m_max_depth, m_leaf_tactic, m_lemmas,
                    m_state, m_choices, ctx_mctx, it, new_state, trace,
                    applied_on, g_pre, resumed >>

\* run(): maximum depth reached, go to backtrack().
run_depth_cap ==
    /\ UNCHANGED nvars
    /\ pc = "loop"
    /\ m_state.goals # << >>
    /\ depth_cap_reached(m_choices, m_max_depth)
    /\ pc' = "backtrack"
    /\ UNCHANGED << m_initial_state, m_max_depth, m_leaf_tactic, m_lemmas,
                    m_state, m_choices, ctx_mctx, it, new_state, result,
                    trace, applied_on, g_pre, resumed >>

\* run(): no lemma for the head symbol; invoke_leaf_tactic().
run_leaf ==
    /\ UNCHANGED nvars
    /\ pc = "loop"
    /\ m_state.goals # << >>
    /\ ~ depth_cap_reached(m_choices, m_max_depth)
    /\ no_lemmas(find(m_lemmas, head_index(whnf(Head(m_state.goals)))))
    /\ LET tmp == set_goals(m_state, << Head(m_state.goals) >>)
           ok  == leaf_ok(m_leaf_tactic, tmp)
       IN  /\ trace' = Record(trace, [op |-> "leaf", arg |-> Head(m_state.goals),
                                      on |-> tmp.goals, ok |-> ok])
           /\ IF ok
              THEN /\ m_state' = leaf_adopt(leaf_state(m_leaf_tactic, tmp), m_state)
                   /\ pc' = "loop"
              ELSE /\ UNCHANGED m_state
                   /\ pc' = "backtrack"
    /\ UNCHANGED << m_initial_state, m_max_depth, m_leaf_tactic, m_lemmas,
                    m_choices, ctx_mctx, it, new_state, result, applied_on,
                    g_pre, resumed >>

\* run(): candidates exist; enter try_lemmas(lemmas).
run_try_lemmas ==
    /\ UNCHANGED nvars
    /\ pc = "loop"
    /\ m_state.goals # << >>
    /\ ~ depth_cap_reached(m_choices, m_max_depth)
    /\ ~ no_lemmas(find(m_lemmas, head_index(whnf(Head(m_state.goals)))))
    /\ it' = find(m_lemmas, head_index(whnf(Head(m_state.goals))))
    /\ ctx_mctx' = m_state.mctx
    /\ resumed' = << >>
    /\ pc' = "try"
    /\ UNCHANGED << m_initial_state, m_max_depth, m_leaf_tactic, m_lemmas,
                    m_state, m_choices, new_state, result, trace, applied_on,
                    g_pre >>

\* try_lemmas(): one iteration of while (it): apply head(it).  apply takes
\* m_ctx by reference: a successful apply may leave the assignment it made
\* in m_ctx, or leave m_ctx as it was and return the assignment in the new
\* state only.
try_lemmas_apply ==
    /\ UNCHANGED nvars
    /\ pc = "try"
    /\ it # << >>
    /\ LET ok == apply_ok(Head(it), m_state)
       IN  /\ trace' = Record(trace, [op |-> "apply", arg |-> Head(it).name,
                                      on |-> m_state.goals, ok |-> ok])
           /\ applied_on' = [state |-> m_state, mctx |-> ctx_mctx]
           /\ IF ok
              THEN /\ new_state' = apply_state(ctx_mctx, Head(it), m_state)
                   /\ ctx_mctx' \in { ctx_mctx, apply_state(ctx_mctx, Head(it), m_state).mctx }
                   /\ pc' = "push"
                   /\ UNCHANGED it
              ELSE /\ it' = Tail(it)
                   /\ UNCHANGED << new_state, pc, ctx_mctx >>
    /\ UNCHANGED << m_initial_state, m_max_depth, m_leaf_tactic, m_lemmas,
                    m_state, m_choices, result, g_pre, resumed >>

\* try_lemmas(): apply succeeded; record the alternatives.
try_lemmas_push ==
    /\ UNCHANGED nvars
    /\ pc = "push"
    /\ m_choices' = push_choice(m_choices, m_state, new_state, Tail(it))
    /\ g_pre' = IF Tail(it) # << >> THEN Append(g_pre, applied_on) ELSE g_pre
    /\ pc' = "commit"
    /\ UNCHANGED << m_initial_state, m_max_depth, m_leaf_tactic, m_lemmas,
                    m_state, ctx_mctx, it, new_state, result, trace,
                    applied_on, resumed >>

\* try_lemmas(): m_state = *new_state; return true  (the caller loops).
try_lemmas_commit ==
    /\ UNCHANGED nvars
    /\ pc = "commit"
    /\ m_state' = new_state
    /\ pc' = "loop"
    /\ UNCHANGED << m_initial_state, m_max_depth, m_leaf_tactic, m_lemmas,
                    m_choices, ctx_mctx, it, new_state, result, trace, applied_on,
                    g_pre, resumed >>

\* try_lemmas(): the list is exhausted; return false  (the caller backtracks).
try_lemmas_fail ==
    /\ UNCHANGED nvars
    /\ pc = "try"
    /\ it = << >>
    /\ pc' = "backtrack"
    /\ UNCHANGED << m_initial_state, m_max_depth, m_leaf_tactic, m_lemmas,
                    m_state, m_choices, ctx_mctx, it, new_state, result,
                    trace, applied_on, g_pre, resumed >>

\* backtrack(): pop a choice point and resume try_lemmas on its lemmas.
backtrack_pop ==
    /\ UNCHANGED nvars
    /\ pc = "backtrack"
    /\ ~ choices_exhausted(m_choices)
    /\ LET c == top_choice(m_choices)
       IN  /\ it' = c.m_lemmas
           /\ m_state' = c.m_state
           /\ ctx_mctx' = c.m_state.mctx
    /\ m_choices' = SubSeq(m_choices, 1, Len(m_choices) - 1)
    /\ resumed' = << g_pre[Len(g_pre)] >>
    /\ g_pre' = SubSeq(g_pre, 1, Len(g_pre) - 1)
    /\ pc' = "try"
    /\ UNCHANGED << m_initial_state, m_max_depth, m_leaf_tactic, m_lemmas,
                    new_state, result, trace, applied_on >>

\* backtrack() returns false; run() returns false; operator()() fails.
backtrack_fail ==
    /\ UNCHANGED nvars
    /\ pc = "backtrack"
    /\ choices_exhausted(m_choices)
    /\ result' = mk_tactic_exception(m_initial_state)
    /\ pc' = "done"
    /\ UNCHANGED << m_initial_state, m_max_depth, m_leaf_tactic, m_lemmas,
                    m_state, m_choices, ctx_mctx, it, new_state, trace,
                    applied_on, g_pre, resumed >>

BCNext ==
    \/ back_chaining
    \/ run_no_goals
    \/ run_depth_cap
    \/ run_leaf
    \/ run_try_lemmas
    \/ try_lemmas_apply
    \/ try_lemmas_push
    \/ try_lemmas_commit
    \/ try_lemmas_fail
    \/ backtrack_pop
    \/ backtrack_fail

BCSpec == BCInit /\ [][BCNext]_vars

\* The tactic runs on one thread and always takes its next step.
BCFairSpec == BCInit /\ [][BCNext]_vars /\ WF_vars(BCNext)

----------------------------------------------------------------------------
(* The normalizer as used by its callers *)

NormInit ==
    /\ BCIdle
    /\ NormIdle
    /\ norm_max_depth = LEAN_KERNEL_NORMALIZER_MAX_DEPTH
    /\ arg_ctx \in Contexts
    /\ arg_given = T0
    /\ arg_e \in { e \in ExprUniverse : closed(e, Len(arg_ctx)) }

\* what check_interrupted will see
fuel_of(interrupted) == IF interrupted THEN 0 ELSE -1

\* normalizer::operator()(e, ctx), first call on the normalizer
normalizer_call ==
    /\ n_calls = 0
    /\ LET r == call_normalize(arg_e, arg_ctx, m_ctx, m_cache,
                               fuel_of(m_interrupted), FALSE)
       IN  /\ out' = [err |-> r.err, v |-> r.v]
           /\ m_cache' = r.st.cache
           /\ m_depth' = r.st.m_depth
           /\ life' = after_call(life, out.err, -1, r.st)
    /\ m_ctx' = arg_ctx
    /\ n_calls' = 1
    /\ UNCHANGED << bcvars, arg_given, norm_max_depth, m_interrupted, arg_e, arg_ctx >>

\* normalizer::operator()(e', ctx) on the same normalizer, e' being the
\* expression the previous call returned; ctx is the same context object or
\* an equal one
normalizer_call_again ==
    /\ n_calls >= 1
    /\ n_calls < MaxCalls
    /\ out.err = "ok"
    /\ \E same_object \in BOOLEAN :
         LET r == call_normalize(out.v, arg_ctx, m_ctx, m_cache,
                                 fuel_of(m_interrupted), same_object)
         IN  /\ out' = [err |-> r.err, v |-> r.v]
             /\ m_cache' = r.st.cache
             /\ m_depth' = r.st.m_depth
             /\ life' = after_call(life, out.err, -1, r.st)
    /\ arg_e' = out.v
    /\ m_ctx' = arg_ctx
    /\ n_calls' = n_calls + 1
    /\ UNCHANGED << bcvars, arg_given, norm_max_depth, m_interrupted, arg_ctx >>

NormNext ==
    \/ normalizer_call
    \/ normalizer_call_again

NormSpec == NormInit /\ [][NormNext]_vars

----------------------------------------------------------------------------
(* One normalizer over its life: calls, set_interrupt, clear *)

\* the depth chain of scenario S3: beta reduction leaves c (c x) below the
\* application, four calls deep
Chain4 == mk_app(<< mk_lambda(T0, mk_app(<< Cc, mk_app(<< Cc, V0 >>) >>)), Cc >>)

LifeExprs ==
    { Cc, Cid, V0,
      mk_app(<< Cc, mk_app(<< Cc, Cc >>) >>), Chain4,
      mk_eq(V0s, V0s), mk_app(<< Cc, V0s, V0s >>),
      mk_pi(T0, V0), mk_lambda(T0, V0), mk_let(Cc, mk_app(<< V0, V0 >>)) }

LifeContexts == { << >>, << entry_var >>, << entry_let(Cc), entry_var >>, << entry_let(V0s), entry_var >> }

DepthCaps == 0..MaxCap \cup { LEAN_KERNEL_NORMALIZER_MAX_DEPTH }

\* normalizer(env, max_depth), nothing called yet
LifeInit ==
    /\ BCIdle
    /\ NormIdle
    /\ norm_max_depth \in DepthCaps
    /\ arg_ctx \in LifeContexts
    /\ arg_e \in { e \in LifeExprs : closed(e, Len(arg_ctx)) }
    /\ arg_given = T0

\* normalizer::operator()(arg_e, arg_ctx), once more on the same normalizer
\* and with the same context object
normalizer_retry ==
    /\ n_calls >= 1
    /\ n_calls < MaxCalls
    /\ LET r == call_normalize(arg_e, arg_ctx, m_ctx, m_cache,
                               fuel_of(m_interrupted), TRUE)
       IN  /\ out' = [err |-> r.err, v |-> r.v]
           /\ m_cache' = r.st.cache
           /\ m_depth' = r.st.m_depth
           /\ life' = after_call(life, out.err, -1, r.st)
    /\ m_ctx' = arg_ctx
    /\ n_calls' = n_calls + 1
    /\ UNCHANGED << bcvars, arg_given, norm_max_depth, m_interrupted, arg_e, arg_ctx >>

\* normalizer::operator()(arg_e, arg_ctx) while a watchdog thread executes
\* set_interrupt(true): the flag is clear on entry and is set after the
\* call has entered normalize n times
normalizer_call_watched ==
    /\ n_calls < MaxCalls
    /\ ~ m_interrupted
    /\ \E n \in 0..MaxWatch :
         LET r == call_normalize(arg_e, arg_ctx, m_ctx, m_cache, n, n_calls > 0)
         IN  /\ out' = [err |-> r.err, v |-> r.v]
             /\ m_cache' = r.st.cache
             /\ m_depth' = r.st.m_depth
             /\ life' = after_call(life, out.err, n, r.st)
    /\ m_interrupted' = TRUE
    /\ m_ctx' = arg_ctx
    /\ n_calls' = n_calls + 1
    /\ UNCHANGED << bcvars, arg_given, norm_max_depth, arg_e, arg_ctx >>

\* normalizer::set_interrupt(flag), between two calls
set_interrupt ==
    /\ \E flag \in BOOLEAN :
         /\ m_interrupted' = flag
         /\ life' = [life EXCEPT !.since = @ \cup { "set_interrupt" },
                                 !.flagged = @ \/ flag]
    /\ UNCHANGED << bcvars, arg_given, m_ctx, m_cache, norm_max_depth, m_depth, arg_e, arg_ctx, out, n_calls >>

\* normalizer::clear()
clear ==
    /\ m_ctx' = << >>
    /\ m_cache' = cache_clear(m_cache)
    /\ life' = [life EXCEPT !.since = @ \cup { "clear" }]
    /\ UNCHANGED << bcvars, arg_given, norm_max_depth, m_interrupted, m_depth, arg_e, arg_ctx, out, n_calls >>

\* normalizer::is_convertible(arg_e, arg_given, arg_ctx); a watchdog thread
\* may execute set_interrupt(true) after n entries of normalize (n = -1: no
\* watchdog)
is_convertible_call ==
    /\ n_calls < MaxCalls
    /\ \E n \in -1..MaxWatch :
         /\ n >= 0 => ~ m_interrupted
         /\ LET fuel == IF n >= 0 THEN n ELSE fuel_of(m_interrupted)
                r == imp_is_convertible_at(arg_e, arg_given, arg_ctx, m_ctx, m_cache,
                                           fuel, n_calls > 0, norm_max_depth, m_depth)
            IN  /\ out' = [err |-> r.err, v |-> r.v]
                /\ m_cache' = r.st.cache
                /\ m_depth' = r.st.m_depth
                /\ m_ctx' = r.ctx
                /\ life' = [after_call(life, out.err, n, r.st)
                              EXCEPT !.op = "is_convertible"]
         /\ m_interrupted' = (m_interrupted \/ n >= 0)
    /\ n_calls' = n_calls + 1
    /\ UNCHANGED << bcvars, norm_max_depth, arg_e, arg_ctx, arg_given >>

LifeNext ==
    \/ normalizer_call
    \/ normalizer_retry
    \/ normalizer_call_watched
    \/ is_convertible_call
    \/ set_interrupt
    \/ clear

LifeSpec == LifeInit /\ [][LifeNext]_vars

----------------------------------------------------------------------------
(* Convertibility of types, on new normalizers *)

Levels == 0..MaxLevel

ConvExprs ==
    { mk_type(l) : l \in Levels } \cup
    { mk_pi(T0, mk_type(l)) : l \in Levels } \cup
    { mk_bool_type, Cc, mk_pi(mk_type(1), T0), mk_pi(T0, mk_bool_type),
      mk_app(<< mk_lambda(T0, V0), mk_type(1) >>) }

ConvInit ==
    /\ BCIdle
    /\ NormIdle
    /\ norm_max_depth = LEAN_KERNEL_NORMALIZER_MAX_DEPTH
    /\ arg_ctx \in LifeContexts
    /\ arg_e \in ConvExprs
    /\ arg_given \in ConvExprs

ConvNext == is_convertible_call

ConvSpec == ConvInit /\ [][ConvNext]_vars

----------------------------------------------------------------------------
(* Claims about backward chaining *)

step_lemma == [name |-> "step", concl |-> "Pa", prems |-> << "Pa" >>]

\* The scenario of C1: goal P, the single lemma step : P -> P, a failing
\* leaf tactic, max_depth = 2.
DepthCapScenario ==
    /\ m_initial_state.goals = << "Pa" >>
    /\ m_lemmas = << step_lemma >>
    /\ m_leaf_tactic = "failed"
    /\ m_max_depth = 2

\* C1: in the depth-cap scenario the engine eventually returns, and it
\* returns the search failure.
C1_DepthCapScenarioTerminates ==
    DepthCapScenario => <>(pc = "done" /\ result.kind = "failure")

\* C2 (as stated): on a state without goals back_chaining returns success,
\* having called neither apply nor the leaf tactic.
C2_NoGoalsReturnsSuccess ==
    (pc = "done" /\ m_initial_state.goals = << >>)
        => (result.kind = "success" /\ trace = << >>)

\* C2 (amended): on a state without goals back_chaining returns the no-goals
\* exception carrying that state, having called neither apply nor the leaf
\* tactic.
C2_NoGoalsReturnsNoGoalsException ==
    (pc = "done" /\ m_initial_state.goals = << >>)
        => (result = mk_no_goals_exception(m_initial_state) /\ trace = << >>)

C2_Witness ==
    /\ pc = "done"
    /\ m_initial_state.goals = << >>
    /\ m_lemmas # << >>
    /\ result.kind = "no_goals"

\* C3: the choice stack never holds more than max_depth choice points, at
\* any control point of run, try_lemmas and backtrack.
C3_BoundedChoiceStack == Len(m_choices) <= m_max_depth

C3_Witness ==
    /\ pc = "commit"
    /\ m_max_depth = 2
    /\ Len(m_choices) = m_max_depth

\* C4: after backtrack() has popped a choice point, the state and the
\* metavariable context that the remaining lemmas are applied to are those
\* that were passed to the apply call which created the choice point.
C4_BacktrackRestoration ==
    (pc = "try" /\ resumed # << >>)
        => (m_state = resumed[1].state /\ ctx_mctx = resumed[1].mctx)

C4_Witness ==
    /\ pc = "try"
    /\ resumed # << >>
    /\ it # << >>
    /\ new_state.mctx # m_state.mctx
    /\ new_state.goals # m_state.goals

\* C5: run() starts on the head goal alone, and a success carries exactly
\* the tail of the initial goal list.
C5_EntryWrapper ==
    /\ (pc = "loop" /\ trace = << >> /\ m_choices = << >>)
          => m_state = mk_state(<< Head(m_initial_state.goals) >>,
                                m_initial_state.mctx)
    /\ result.kind = "success"
          => result.state.goals = Tail(m_initial_state.goals)

C5_Witness ==
    /\ result.kind = "success"
    /\ Len(m_initial_state.goals) = 2
    /\ \E i \in 1..Len(trace) : trace[i].op = "apply" /\ trace[i].ok

\* C6: the search failure is returned only with the choice stack empty and
\* it carries the caller's initial state; a step of try_lemmas that still has
\* a lemma to try never ends the search.
C6_FailureOnlyOnExhaustion ==
    /\ [](result.kind = "failure"
            => (m_choices = << >> /\ result.state = m_initial_state))
    /\ [][(pc = "try" /\ it # << >>) => pc' # "done"]_vars

C6_Witness ==
    /\ result.kind = "failure"
    /\ new_state.mctx # m_initial_state.mctx
    /\ resumed # << >>
    /\ \E i \in 1..Len(trace) : trace[i].op = "apply" /\ ~ trace[i].ok

\* the lemmas the index holds for the head of the goal g
bucket(g) == find(m_lemmas, head_index(whnf(g)))

\* q is p without some first elements
is_suffix(q, p) ==
    Len(q) <= Len(p) /\ q = SubSeq(p, Len(p) - Len(q) + 1, Len(p))

\* the example of C15: goal P a, bucket [h1 : Q -> P a, h2 : P a], a failing
\* leaf tactic, room for two choice points
h1_lemma == [name |-> "h1", concl |-> "Pa", prems |-> << "Q" >>]
h2_lemma == [name |-> "h2", concl |-> "Pa", prems |-> << >>]

SearchOrderScenario ==
    /\ m_initial_state.goals = << "Pa" >>
    /\ m_lemmas = << h1_lemma, h2_lemma >>
    /\ m_leaf_tactic = "failed"
    /\ m_max_depth = 2

\* C15 (search order): the apply attempts are the depth-first, left-to-right
\* traversal of the alternatives: the lemmas still to try for a goal are a
\* tail of the index's list for that goal, every attempt takes the first of
\* them and a failed one leaves the rest (each lemma at most once per choice
\* point), a choice point holds the rest of the list tried on its state, and
\* backtrack() resumes the choice point pushed last; in the example h1 is
\* applied, the leaf fails on Q, h2 is applied to the restored state and the
\* result has no goals.
C15_SearchOrder ==
    /\ []((pc \in {"try", "push"} /\ m_state.goals # << >>)
            => is_suffix(it, bucket(Head(m_state.goals))))
    /\ [](\A i \in 1..Len(m_choices) :
            /\ m_choices[i].m_lemmas # << >>
            /\ is_suffix(m_choices[i].m_lemmas, Tail(bucket(Head(m_choices[i].m_state.goals)))))
    /\ [][(pc = "try" /\ it # << >>)
            => /\ (Len(trace) < MaxTrace
                     => /\ trace' = Append(trace, trace'[Len(trace')])
                        /\ trace'[Len(trace')].op = "apply"
                        /\ trace'[Len(trace')].arg = Head(it).name
                        /\ trace'[Len(trace')].on = m_state.goals)
               /\ (pc' = "try" => it' = Tail(it))]_vars
    /\ [][(pc = "push" /\ Tail(it) # << >>)
            => m_choices' = Append(m_choices, [m_state |-> m_state, m_lemmas |-> Tail(it)])]_vars
    /\ [][(pc = "backtrack" /\ m_choices # << >>)
            => /\ it' = m_choices[Len(m_choices)].m_lemmas
               /\ m_state' = m_choices[Len(m_choices)].m_state
               /\ m_choices' = SubSeq(m_choices, 1, Len(m_choices) - 1)
               /\ pc' = "try"]_vars
    /\ []((SearchOrderScenario /\ pc = "done")
            => /\ trace = << [op |-> "apply", arg |-> "h1", on |-> << "Pa" >>, ok |-> TRUE],
                             [op |-> "leaf", arg |-> "Q", on |-> << "Q" >>, ok |-> FALSE],
                             [op |-> "apply", arg |-> "h2", on |-> << "Pa" >>, ok |-> TRUE] >>
               /\ result.kind = "success"
               /\ result.state.goals = << >>)

\* two different choice points are open and the later one is resumed
C15_Witness ==
    /\ pc = "try"
    /\ resumed # << >>
    /\ Len(m_choices) = 1
    /\ m_choices[1].m_state # m_state
    /\ it # << >>

\* C16 (leaf-tactic success): invoke_leaf_tactic() runs the leaf on the state
\* holding the main goal alone, and on success m_state is the state the leaf
\* returned with the trailing goals behind it: the goals still open in the
\* leaf's state stay in m_state, followed by the trailing goals.
C16_LeafSuccessKeepsOpenGoals ==
    [][(run_leaf /\ leaf_ok(m_leaf_tactic, focus(m_state)))
        => /\ m_state'.goals = leaf_state(m_leaf_tactic, focus(m_state)).goals
                                  \o Tail(m_state.goals)
           /\ m_state'.mctx = leaf_state(m_leaf_tactic, focus(m_state)).mctx
           /\ (Len(trace) < MaxTrace
                 => trace'[Len(trace')].on = << Head(m_state.goals) >>)]_vars

\* C17 (leaf tactic only at the fringe): the leaf tactic is invoked only on a
\* goal for whose head the index has no candidates; when candidates exist and
\* none applies, backtrack() is next and the leaf is not invoked on the goal;
\* a failed leaf invocation leaves m_state as it was.
C17_LeafOnlyAtFringe ==
    /\ [](\A i \in 1..Len(trace) :
            trace[i].op = "leaf" => bucket(trace[i].arg) = << >>)
    /\ [][(pc = "loop" /\ m_state.goals # << >> /\ bucket(Head(m_state.goals)) # << >>)
            => (trace' = trace /\ pc' \in {"try", "backtrack"})]_vars
    /\ [][(pc = "try" /\ it = << >>)
            => (pc' = "backtrack" /\ trace' = trace /\ m_state' = m_state)]_vars
    /\ [][(run_leaf /\ ~ leaf_ok(m_leaf_tactic, focus(m_state)))
            => (m_state' = m_state /\ pc' = "backtrack")]_vars

\* candidates existed for the goal, none applied, and the leaf tactic, which
\* would have succeeded, was not invoked
C17_Witness ==
    /\ pc = "backtrack"
    /\ m_leaf_tactic = "skip"
    /\ m_state.goals # << >>
    /\ bucket(Head(m_state.goals)) # << >>
    /\ trace # << >>
    /\ \A i \in 1..Len(trace) : trace[i].op = "apply" /\ ~ trace[i].ok

\* C18 (the depth cap precedes any work): when the loop of run() is entered
\* with a goal and |m_choices| >= max_depth, backtrack() is next, with no
\* lemma lookup, apply or leaf invocation on the goal before it; with
\* max_depth = 0 a call on a state with a goal fails without any apply or
\* leaf invocation.
C18_DepthCapPrecedesWork ==
    /\ [][(pc = "loop" /\ m_state.goals # << >> /\ Len(m_choices) >= m_max_depth)
            => (pc' = "backtrack" /\ trace' = trace /\ it' = it
                  /\ m_state' = m_state /\ m_choices' = m_choices)]_vars
    /\ []((m_max_depth = 0 /\ pc = "done" /\ m_initial_state.goals # << >>)
            => (result.kind = "failure" /\ trace = << >>))

\* max_depth = 0, a goal that a lemma of the index would close
C18_Witness ==
    /\ m_max_depth = 0
    /\ pc = "done"
    /\ m_initial_state.goals # << >>
    /\ \E i \in 1..Len(m_lemmas) : apply_ok(m_lemmas[i], focus(m_initial_state))
    /\ result.kind = "failure"

----------------------------------------------------------------------------
(* Claims about the normalizer.  They are read in the states after the first
   call normalizer::operator()(arg_e, arg_ctx) on a new normalizer, which is
   the function normalize(e, env, ctx). *)

\* the first call has returned
Normalized == n_calls = 1

\* two calls end alike: the same exception, or equal expressions
same_result(x, y) ==
    /\ x.err = y.err
    /\ x.err = "ok" => expr_eq(x.v, y.v)

\* C7 (Let-elimination): for a well-scoped Let(_, v, b) and a context ctx,
\* normalize(Let(_, v, b), ctx) equals normalize(substitute(b, 0, v), ctx).
C7_LetElimination ==
    (Normalized /\ arg_e.kind = "Let") =>
        same_result(out, normalize_fn(substitute(arg_e.body, 0, arg_e.value), arg_ctx))

is_redex(e) == e.kind = "App" /\ e.args[1].kind = "Lambda"

\* one beta step on the first argument of the redex e
beta_step(e) ==
    LET b == substitute(e.args[1].body, 0, e.args[2])
    IN  IF Len(e.args) = 2 THEN b
        ELSE mk_app(<< b >> \o SubSeq(e.args, 3, Len(e.args)))

\* C8 (beta-correctness): for a well-scoped redex, with one argument or more
\* and with or without shared nodes, normalize(App(Lambda(_, T, b), a), ctx)
\* equals normalize(substitute(b, 0, a), ctx); and
\* normalize(App(Lambda(x, Type 0, Var 0), Constant c), empty) is Constant c.
C8_BetaCorrectness ==
    /\ (Normalized /\ is_redex(arg_e)) =>
           same_result(out, normalize_fn(beta_step(arg_e), arg_ctx))
    /\ (Normalized /\ arg_ctx = << >> /\ arg_e = mk_app(<< mk_lambda(T0, V0), Cc >>)) =>
           (out.err = "ok" /\ out.v = Cc)

\* C9 (idempotence): for a well-scoped e and a context ctx,
\* normalize(normalize(e, ctx), ctx) equals normalize(e, ctx).
C9_Idempotence ==
    (Normalized /\ out.err = "ok") =>
        same_result(normalize_fn(out.v, arg_ctx), out)

\* C10 (Eq reduction): normalize(Eq(l, r), ctx) is never an error; with l'
\* and r' the normalized sides it is true when l' and r' are syntactically
\* equal, false when they differ and both are Values, and Eq(l', r')
\* otherwise.
C10_EqReduction ==
    (Normalized /\ arg_e.kind = "Eq") =>
        LET l == normalize_fn(arg_e.lhs, arg_ctx)
            r == normalize_fn(arg_e.rhs, arg_ctx)
        IN  /\ out.err = "ok"
            /\ (l.err = "ok" /\ r.err = "ok") =>
                  expr_eq(out.v,
                          IF expr_eq(l.v, r.v) THEN mk_bool_value(TRUE)
                          ELSE IF is_value(l.v) /\ is_value(r.v)
                               THEN mk_bool_value(FALSE)
                          ELSE mk_eq(l.v, r.v))

----------------------------------------------------------------------------
(* Claims about one normalizer over its life *)

\* the first call was made with the flag clear and without a watchdog
FirstCallUndisturbed ==
    n_calls = 1 /\ life.op = "normalize" /\ life.watch = -1 /\ ~ life.flagged

\* the call normalize(arg_e, arg_ctx) on a new normalizer without depth cap
Uncapped == normalize_fn(arg_e, arg_ctx)

\* C11 (depth cap): with max_depth = d, a normalization fails with
\* DepthExceeded exactly when it needs more than d nested calls of normalize
\* (d nested calls are allowed, entering the (d+1)-th raises); a term
\* needing at most d nested calls returns its result.
C11_DepthCap ==
    FirstCallUndisturbed =>
        /\ (out.err = "DepthExceeded") <=> (Uncapped.st.peak > norm_max_depth)
        /\ (Uncapped.st.peak <= norm_max_depth) => same_result(out, Uncapped)

\* scenario S3: max_depth = 3 and a chain four calls deep
C11_Witness ==
    /\ FirstCallUndisturbed
    /\ norm_max_depth = 3
    /\ arg_e = Chain4
    /\ Uncapped.st.peak = 4
    /\ out.err = "DepthExceeded"

\* the call normalizer(env, norm_max_depth)(arg_e, arg_ctx) on a new
\* normalizer whose flag stays clear
Undisturbed == imp_call(arg_e, arg_ctx, << >>, cache_empty, -1, TRUE, norm_max_depth)

\* the call is_convertible(arg_e, arg_given, arg_ctx) on such a normalizer
ConvUndisturbed ==
    imp_is_convertible(arg_e, arg_given, arg_ctx, << >>, cache_empty, -1, TRUE,
                       norm_max_depth)

\* the entries of normalize the undisturbed call makes, the one that throws
\* DepthExceeded included
entries_made(r) == r.st.entries + (IF r.err = "DepthExceeded" THEN 1 ELSE 0)

\* C12 (cooperative cancellation): when set_interrupt(true) is executed
\* while a normalization runs, the next entry of normalize fails with
\* Interrupted before any cache lookup or reduction step (the call has made
\* exactly the entries that preceded the flag), and the fault reaches the
\* caller unchanged; a call that ends before a further entry is not affected;
\* when the flag was never set no call raises Interrupted.
C12_CooperativeCancellation ==
    /\ (n_calls = 1 /\ life.op = "normalize" /\ life.watch >= 0) =>
          IF life.watch < entries_made(Undisturbed)
          THEN out.err = "Interrupted" /\ life.entries = life.watch
          ELSE same_result(out, Undisturbed)
    /\ (n_calls = 1 /\ life.op = "is_convertible" /\ life.watch >= 0) =>
          IF life.watch < entries_made(ConvUndisturbed)
          THEN out.err = "Interrupted" /\ life.entries = life.watch
          ELSE out.err = ConvUndisturbed.err /\ out.v = ConvUndisturbed.v
    /\ (out.err = "Interrupted") => life.flagged

\* the flag is set after two entries of a call that would make more
C12_Witness ==
    /\ n_calls = 1
    /\ life.op = "normalize"
    /\ life.watch = 2
    /\ entries_made(Undisturbed) > 2
    /\ Undisturbed.err = "ok"
    /\ out.err = "Interrupted"

\* the last call is a normalize made after a call that raised err, with
\* clear() and nothing else called in between
RetriedAfterClear(err) ==
    /\ n_calls >= 2
    /\ life.op = "normalize"
    /\ life.watch = -1
    /\ life.prev = err
    /\ life.pre = { "clear" }

\* C13 (reuse after a fault): after a call has raised Interrupted or
\* DepthExceeded, clear() alone makes the normalizer reusable: the next
\* normalize(e, ctx) on it returns what a newly constructed normalizer
\* returns.
C13_ReuseAfterClear ==
    (RetriedAfterClear("Interrupted") \/ RetriedAfterClear("DepthExceeded")) =>
        same_result(out, Undisturbed)

----------------------------------------------------------------------------
(* Claims about convertibility *)

\* C14 (cumulativity): for all universe levels u and v and every context,
\* is_convertible(Type(u), Type(v), ctx) returns exactly env.is_ge(u, v), the
\* same universe being convertible to itself.
C14_Cumulativity ==
    (n_calls = 1 /\ life.op = "is_convertible" /\ life.watch = -1
       /\ is_type(arg_e) /\ is_type(arg_given)) =>
        /\ out.err = "ok"
        /\ out.v = is_ge(arg_e.level, arg_given.level)
        /\ (arg_e.level = arg_given.level) => out.v

\* two universes the order does not relate, and two it relates one way
C14_Witness ==
    /\ n_calls = 1 /\ life.op = "is_convertible" /\ life.watch = -1
    /\ is_type(arg_e) /\ is_type(arg_given)
    /\ arg_e.level = 2 /\ arg_given.level = 1
    /\ out.err = "ok" /\ out.v = FALSE


\* C19: at every point where m_ctx takes a different value (set_ctx with a
\* different context, lookup entering the context of a let-bound entry,
\* save_context restoring the previous context, clear()) the cache holds no
\* entry, so no entry computed under one context is visible under another
C19_CacheFlushedOnContextChange ==
    /\ (life.op = "normalize" /\ life.since = {}) => life.switch_clean
    /\ ("clear" \in life.since /\ m_ctx = << >>) => cache_holds_nothing(m_cache)

\* C20: every frame pushed for a beta step, a Pi body or a Let body is popped
\* on every exit (return, DepthExceeded, Interrupted), and each pop leaves
\* the visible contents of the cache as they were when the frame was pushed
C20_ScopedCacheFrames ==
    (life.op = "normalize" /\ life.since = {}) => (Len(m_cache) = 1 /\ life.frames_exact)


\* a context with the identities of the nodes of its entries forgotten
unshared_context(ctx) ==
    [i \in 1..Len(ctx) |-> IF ctx[i].body = << >> THEN ctx[i] ELSE entry_let(structure(ctx[i].body[1]))]

\* normalize(e, env, ctx) with no node shared: is_shared is false at every
\* entry of normalize, so the cache is neither read nor written
normalize_uncached(e, ctx) == normalize_fn(structure(e), unshared_context(ctx))

\* C21 (memoization soundness): the normalizer with its cache and the same
\* normalizer without a cache give equal results on every input, so every
\* cache hit returns what normalize would compute for (a, s, k)
C21_MemoizationSoundness ==
    Normalized => same_result(out, normalize_uncached(arg_e, arg_ctx))


\* C22 (depth counter balance): m_depth is the number of invocations of
\* normalize active, at every entry of normalize; it is 0 after every public
\* call, returned or thrown; and a later call on the same normalizer has the
\* whole of max_depth: it raises DepthExceeded only for a term whose
\* normalization goes deeper than max_depth
C22_DepthCounterBalance ==
    /\ m_depth = 0
    /\ life.balanced
    /\ life.peak <= norm_max_depth
    /\ (n_calls >= 2 /\ life.op = "normalize" /\ out.err = "DepthExceeded") =>
          Uncapped.st.peak > norm_max_depth

\* a call that raised DepthExceeded, and the next call on the same
\* normalizer going as deep as max_depth before it raises it as well
C22_Witness ==
    /\ n_calls = 2 /\ life.op = "normalize"
    /\ life.prev = "DepthExceeded" /\ out.err = "DepthExceeded"
    /\ norm_max_depth >= 2 /\ life.peak = norm_max_depth
    /\ m_depth = 0

=============================================================================
